---- MODULE Spec2Model ----
(***************************************************************************)
(* The tattoo backend: the three iterations of the generate-tattoo handler *)
(* (src/main.py, src/backend/main.py, src/project/main.py) and the         *)
(* alter-tattoo handler of src/project/main.py, as coroutines of a server  *)
(* process.  A coroutine gives up its event loop only at an await; the     *)
(* shared state is the directory "generated images".                       *)
(*                                                                         *)
(* Values are sequences of strings: a text is a sequence of letters, a     *)
(* byte string a sequence of tokens, an encoded image <<format, bitmap>>,  *)
(* a base64 string the sequence of its tokens' base64 groups.              *)
(***************************************************************************)
EXTENDS Integers, Sequences, FiniteSets, TLC

\* The model service emits at most MaxParts response parts in a behaviour.
MaxParts == 2

Slots == {"r1", "r2"}
Workers == {"w1", "w2"}

\* The applications of the repository, one main.py each, and their routes.
Apps == {"project", "backend", "root"}
Routes(a) == IF a = "project" THEN {"project", "alter"} ELSE {a}

None == <<"None">>
Free == "free"

VARIABLES app, dir, worker, loop, st, emitted, started_empty, gens, multi

vars == <<app, dir, worker, loop, st, emitted, started_empty, gens, multi>>

----------------------------------------------------------------------------
\* Python truthiness of a str/bytes/None value.
Truthy(v) == v # None /\ v # <<>>

\* base64 of one token.
B64Group(t) ==
  CASE t = "jpg" -> "anBn"
    [] t = "png" -> "cG5n"
    [] t = "i1" -> "aTE="
    [] t = "i2" -> "aTI="
    [] t = "u1" -> "dTE="
    [] t = "junk" -> "anVuaw=="
    [] OTHER -> "Pw=="

B64Groups == {"anBn", "cG5n", "aTE=", "aTI=", "dTE=", "anVuaw=="}

\* base64.b64encode(b).decode()
B64Encode(b) == [i \in 1..Len(b) |-> B64Group(b[i])]

B64Token(g) ==
  CASE g = "anBn" -> "jpg"
    [] g = "cG5n" -> "png"
    [] g = "aTE=" -> "i1"
    [] g = "aTI=" -> "i2"
    [] g = "dTE=" -> "u1"
    [] OTHER -> "junk"

\* base64.b64decode(s): characters outside the alphabet are discarded.
B64Decode(s) ==
  LET valid == SelectSeq(s, LAMBDA g : g \in B64Groups)
  IN [i \in 1..Len(valid) |-> B64Token(valid[i])]

Formats == {"jpg", "png"}

\* Image.open(BytesIO(b)) succeeds.
ImageOpenOk(b) == Len(b) = 2 /\ b[1] \in Formats

\* The bitmap Image.open yields.
Bitmap(b) == b[2]

\* img.save(buffer, "PNG"); buffer.getvalue()
SavePng(bitmap) == <<"png", bitmap>>

----------------------------------------------------------------------------
\* File names: <<prefix, character..., extension>>.
Prefix == "generated_image"
DigitChars == {"0", "1", "2", "3", "4", "5", "6", "7", "8", "9"}

DigitVal(c) ==
  CASE c = "0" -> 0 [] c = "1" -> 1 [] c = "2" -> 2 [] c = "3" -> 3
    [] c = "4" -> 4 [] c = "5" -> 5 [] c = "6" -> 6 [] c = "7" -> 7
    [] c = "8" -> 8 [] OTHER -> 9

DigitChar(d) ==
  CASE d = 0 -> "0" [] d = 1 -> "1" [] d = 2 -> "2" [] d = 3 -> "3"
    [] d = 4 -> "4" [] d = 5 -> "5" [] d = 6 -> "6" [] d = 7 -> "7"
    [] d = 8 -> "8" [] OTHER -> "9"

\* f.startswith("generated_image") and f.lower().endswith('.png')
IsGenerated(fn) ==
  /\ Len(fn) >= 2
  /\ fn[1] = Prefix
  /\ fn[Len(fn)] \in {".png", ".PNG"}

\* The slice without its end: fn[len("generated_image"):]
StemKeepsExtension(fn) == SubSeq(fn, 2, Len(fn))

\* fn[len("generated_image"):-4]
Stem(fn) == SubSeq(fn, 2, Len(fn) - 1)

\* name.isdigit()
IsDigit(name) == name # <<>> /\ \A i \in 1..Len(name) : name[i] \in DigitChars

RECURSIVE ToInt(_)
\* int(name)
ToInt(name) ==
  IF name = <<>> THEN 0
  ELSE 10 * ToInt(SubSeq(name, 1, Len(name) - 1)) + DigitVal(name[Len(name)])

RECURSIVE ToStr(_)
\* f"{next_idx}"
ToStr(n) ==
  IF n < 10 THEN <<DigitChar(n)>>
  ELSE Append(ToStr(n \div 10), DigitChar(n % 10))

\* The indexes of the listing's numbered files.
Indexes(d) ==
  {ToInt(Stem(fn)) : fn \in {f \in DOMAIN d : IsGenerated(f) /\ IsDigit(Stem(f))}}

\* The scan's max_idx.
MaxIdx(d) ==
  IF Indexes(d) = {} THEN 0
  ELSE CHOOSE m \in Indexes(d) : \A n \in Indexes(d) : n <= m

NextIdx(d) == MaxIdx(d) + 1

\* os.path.join(generated_dir, f"generated_image{next_idx}.png")
OutputPath(n) == <<Prefix>> \o ToStr(n) \o <<".png">>

----------------------------------------------------------------------------
\* The inputs.
NoInline == <<"NoInline">>

\* The response parts of the image model: part.text and part.inline_data.data
\* (a part's data of None or b"" is <<>>).
Parts ==
  {[text |-> <<"a">>, inline |-> NoInline],
   [text |-> <<"b">>, inline |-> <<"jpg", "i1">>],
   [text |-> None, inline |-> NoInline],
   [text |-> None, inline |-> <<>>],
   [text |-> None, inline |-> <<"junk">>],
   [text |-> None, inline |-> <<"jpg", "i1">>],
   [text |-> None, inline |-> <<"png", "i2">>]}

Responses(n) == UNION {[1..k -> Parts] : k \in 0..n}

\* The uploaded photo's bytes.
Photos == {<<"junk">>, <<"jpg", "u1">>}

\* The alter-tattoo request bodies: unparseable, or the fields data.get reads.
AlterBodies ==
  {[json_ok |-> FALSE, feedback |-> None, generated_image_base64 |-> None],
   [json_ok |-> TRUE, feedback |-> None,
    generated_image_base64 |-> B64Encode(SavePng("i1"))],
   [json_ok |-> TRUE, feedback |-> <<"a">>, generated_image_base64 |-> None]}
  \cup
  {[json_ok |-> TRUE, feedback |-> <<"a">>, generated_image_base64 |-> g] :
     g \in {<<"!">>, B64Encode(<<"junk">>), B64Encode(<<"jpg", "i1">>),
            B64Encode(SavePng("i1"))}}

\* The directory listings a server may start with: no directory, a gap in the
\* numbering, names that are not numbered, a two-digit successor.
InitDirs ==
  {<<>>,
   (OutputPath(2) :> "old"),
   (<<Prefix, ".png">> :> "old") @@ (<<Prefix, "X", ".png">> :> "old")
     @@ (OutputPath(1) :> "old") @@ (OutputPath(3) :> "old"),
   (<<Prefix, "0", "9", ".PNG">> :> "old") @@ (<<"other", "5", "0", ".png">> :> "old")
     @@ (<<Prefix, "7", "0", ".jpg">> :> "old")}

----------------------------------------------------------------------------
\* The responses.
NoResp == [status |-> 0, fmt |-> "none", body |-> <<>>]

\* templates.TemplateResponse("index.html", {..., "result": None, "error": str(e)})
ErrorHtml(e) ==
  [status |-> 200, fmt |-> "html", body |-> [result |-> None, error |-> e]]

\* src/backend/main.py: return {"error": str(e)}
ErrorDict(e) == [status |-> 200, fmt |-> "json", body |-> [error |-> e]]

\* src/main.py has no handler: the exception leaves generate_tattoo and the
\* framework answers 500.
Propagated == [status |-> 500, fmt |-> "exception", body |-> <<>>]

\* alter_tattoo's handler: "return JSONResponse", the class and no payload; what
\* the framework makes of it is not this repository's code (status 200 or 500).
ClassStatuses == {200, 500}
ClassReturn(code) == [status |-> code, fmt |-> "class", body |-> <<>>]

\* JSONResponse({"generated_text": ..., "image_base64": ...})
GenerateJson(text, image) ==
  [status |-> 200, fmt |-> "json",
   body |-> [generated_text |-> text, image_base64 |-> image]]

\* The index.html render of a result (the context's "idea" is commented out).
GenerateHtml(photo, image) ==
  [status |-> 200, fmt |-> "html",
   body |-> [uploaded_image_base64 |-> B64Encode(SavePng(Bitmap(photo))),
             generated_image_base64 |-> image,
             fields |-> <<"form">>,
             error |-> None]]

\* return {"idea": response.text, "style": style, ...}
IdeaDict(text) ==
  [status |-> 200, fmt |-> "json", body |-> [idea |-> text, fields |-> <<"form">>]]

InvalidImage ==
  [status |-> 400, fmt |-> "json", body |-> [error |-> <<"Invalid image data">>]]

NoAlteredImage ==
  [status |-> 500, fmt |-> "json",
   body |-> [error |-> <<"No altered image returned by the model">>]]

AlterJson(description, image) ==
  [status |-> 200, fmt |-> "json",
   body |-> [idea |-> IF Truthy(description) THEN description ELSE <<"Altered">>,
             image_base64 |-> image]]

\* What the accept header decides at the end of generate_tattoo's try block.
GenerateResponse(s) ==
  IF s.accept_json THEN GenerateJson(s.generated_text, s.image)
  ELSE GenerateHtml(s.photo, s.image)

\* The end of alter_tattoo's try block.
AlterResponse(s) ==
  IF ~Truthy(s.image) THEN NoAlteredImage
  ELSE AlterJson(s.generated_text, s.image)

\* generate_tattoo's try block ends: the response waits for the accept header.
Negotiated == [status |-> 200, fmt |-> "negotiated", body |-> <<>>]

\* The response once exception e reaches the handler's boundary.
Handled(s, e, code) ==
  CASE s.kind = "project" -> ErrorHtml(e)
    [] s.kind = "backend" -> ErrorDict(e)
    [] s.kind = "alter" -> ClassReturn(code)
    [] OTHER -> Propagated

----------------------------------------------------------------------------
\* A request slot's handler frame: the locals of the handler.  accept_json is
\* the request's Accept header ("application/json" in accept), entered in the
\* frame where the handler returns; saves lists, in order, whether each of the
\* frame's try blocks that opened an image also saved it; before is the listing when the
\* image model answered generate_tattoo.
NoBody == [json_ok |-> FALSE, feedback |-> None, generated_image_base64 |-> None]

Idle ==
  [pc |-> "idle", kind |-> "none", accept_json |-> FALSE, photo |-> None,
   data |-> NoBody, parts |-> <<>>, idx |-> 1, generated_text |-> <<>>,
   image |-> None, img_data |-> None, gen_img |-> "none", next_idx |-> 0,
   prev_image |-> "none", called |-> FALSE, before |-> {}, saves |-> <<>>,
   resp |-> NoResp]

\* As Suspended, with an await between the directory scan and the save.
SuspendedBeforeSave(p) ==
  p \in {"idle", "read_photo", "read_ref", "read_json", "save"}

\* The program points where the coroutine is not running: not started, or at
\* "await photo.read()", "await reference.read()", "await request.json()".
Suspended(p) == p \in {"idle", "read_photo", "read_ref", "read_json"}

\* Slot r takes a step to program point p on its worker's event loop.
Sched(r, p) ==
  /\ loop[worker[r]] = (IF Suspended(st[r].pc) THEN Free ELSE r)
  /\ loop' = [loop EXCEPT ![worker[r]] = IF Suspended(p) THEN Free ELSE r]

\* The frame when the handler returns resp.
Returned(s, resp) == [s EXCEPT !.pc = "done", !.resp = resp]

\* The frame when exception e reaches the handler's boundary.
Raised(s, e, code) == Returned(s, Handled(s, e, code))

\* Slot r's frame becomes t; a returning frame gets the request's Accept header.
Step(r, t) ==
  /\ Sched(r, t.pc)
  /\ \E a \in BOOLEAN :
       /\ a => (t.pc = "done" /\ t.kind = "project")
       /\ LET u == [t EXCEPT !.accept_json = a]
          IN st' = [st EXCEPT ![r] =
                      IF u.resp = Negotiated
                      THEN [u EXCEPT !.resp = GenerateResponse(u)]
                      ELSE u]

Start(a, d, w) ==
  /\ app = a
  /\ dir = d
  /\ worker = w
  /\ loop = [x \in Workers |-> Free]
  /\ st = [r \in Slots |-> Idle]
  /\ emitted = 0
  /\ started_empty = (d = <<>>)
  /\ gens = 0
  /\ multi = FALSE

\* One server process: every request runs on the one event loop.
Init ==
  \E a \in Apps, d \in InitDirs : Start(a, d, [r \in Slots |-> "w1"])

\* Two worker processes of the application over the same directory.
InitMP ==
  \E a \in Apps, d \in {(OutputPath(2) :> "old")} :
    Start(a, d, [r \in Slots |-> IF r = "r1" THEN "w1" ELSE "w2"])

\* A request arrives and its handler runs to its first await.
Submit(r) ==
  /\ st[r].pc = "idle"
  /\ \E k \in Routes(app) :
       Step(r, [Idle EXCEPT !.kind = k,
                            !.pc = IF k = "alter" THEN "read_json" ELSE "read_photo"])
  /\ UNCHANGED <<app, dir, worker, emitted, started_empty, gens, multi>>

\* generate_tattoo after "await photo.read()": Image.open and the PNG
\* re-encoding, then up to "await reference.read()" when a reference came.
OpenPhoto(s, photo, ref) ==
  LET t == [s EXCEPT !.photo = photo]
  IN IF ~ImageOpenOk(photo) THEN Raised(t, <<"UnidentifiedImageError">>, 200)
     ELSE [t EXCEPT !.pc = IF ref THEN "read_ref" ELSE "call"]

ReadPhoto(r) ==
  /\ st[r].pc = "read_photo"
  /\ \E photo \in Photos, ref \in BOOLEAN :
       /\ ref => st[r].kind = "project"
       /\ Step(r, OpenPhoto(st[r], photo, ref))
  /\ UNCHANGED <<app, dir, worker, emitted, started_empty, gens, multi>>

\* ref_bytes = await reference.read(); a reference that cannot be read is ignored.
ReadReference(r) ==
  /\ st[r].pc = "read_ref"
  /\ Step(r, [st[r] EXCEPT !.pc = "call"])
  /\ UNCHANGED <<app, dir, worker, emitted, started_empty, gens, multi>>

\* The decode whose except branch only prints, and goes on to the model call.
DecodePreviousGoesOn(s) ==
  LET image_bytes == B64Decode(s.data.generated_image_base64)
  IN IF ImageOpenOk(image_bytes)
     THEN [s EXCEPT !.pc = "call", !.prev_image = Bitmap(image_bytes)]
     ELSE [s EXCEPT !.pc = "call"]

\* "Decode the previous tattoo image": b64decode and Image.open, or the 400.
DecodePrevious(s) ==
  LET image_bytes == B64Decode(s.data.generated_image_base64)
  IN IF ImageOpenOk(image_bytes)
     THEN [s EXCEPT !.pc = "call", !.prev_image = Bitmap(image_bytes)]
     ELSE Returned(s, InvalidImage)

\* alter_tattoo from "data = await request.json()" to the model call: the debug
\* prints raise TypeError on a missing field (feedback[:100],
\* len(generated_image_base64)).
AlterBody(s, d, code) ==
  LET t == [s EXCEPT !.data = d]
  IN CASE ~d.json_ok -> Raised(s, <<"JSONDecodeError">>, code)
       [] d.json_ok /\ (d.feedback = None \/ d.generated_image_base64 = None) ->
            Raised(t, <<"TypeError">>, code)
       [] OTHER -> DecodePrevious(t)

ReadJson(r) ==
  /\ st[r].pc = "read_json"
  /\ \E d \in AlterBodies, code \in ClassStatuses :
       LET t == AlterBody(st[r], d, code)
       IN /\ code = 500 => t.resp.fmt = "class"
          /\ Step(r, t)
  /\ UNCHANGED <<app, dir, worker, emitted, started_empty, gens, multi>>

\* generate_content raises (no network, a refused key, ...).
CallFails(r) ==
  /\ st[r].pc = "call"
  /\ \E code \in ClassStatuses :
       /\ code = 500 => st[r].kind = "alter"
       /\ Step(r, Raised([st[r] EXCEPT !.called = TRUE], <<"APIError">>, code))
  /\ UNCHANGED <<app, dir, worker, emitted, started_empty, gens, multi>>

\* The text model answers; response.text raises when the answer has no text.
TextAnswer(s, text) ==
  IF text = None THEN Raised(s, <<"ValueError">>, 200)
  ELSE Returned(s, IdeaDict(text))

CallText(r) ==
  /\ st[r].pc = "call"
  /\ st[r].kind \in {"backend", "root"}
  /\ \E text \in {None, <<"a">>} :
       Step(r, TextAnswer([st[r] EXCEPT !.called = TRUE], text))
  /\ UNCHANGED <<app, dir, worker, emitted, started_empty, gens, multi>>

\* The image model answers with its parts.
CallImage(r) ==
  /\ st[r].pc = "call"
  /\ st[r].kind \in {"project", "alter"}
  /\ \E ps \in Responses(MaxParts - emitted) :
       /\ Step(r, [st[r] EXCEPT !.pc = "loop", !.called = TRUE, !.parts = ps,
                     !.before = IF st[r].kind = "project" THEN DOMAIN dir ELSE {}])
       /\ emitted' = emitted + Len(ps)
  /\ UNCHANGED <<app, dir, worker, started_empty, gens, multi>>

\* "generated_text = part.text": the assignment for the "+=".
TextPartAssigns(s, part) ==
  [s EXCEPT !.generated_text = part.text, !.idx = @ + 1]

\* The frame after "generated_text += part.text".
TextPart(s, part) ==
  [s EXCEPT !.generated_text = @ \o part.text, !.idx = @ + 1]

\* An except branch that passes and leaves the image as it was.
FallbackPasses(s) ==
  [s EXCEPT !.idx = @ + 1, !.pc = "loop"]

\* The frame after the except branch: base64 of the raw bytes.
Fallback(s) ==
  [s EXCEPT !.image = B64Encode(s.img_data), !.idx = @ + 1, !.pc = "loop"]

\* generate_tattoo's image branch up to the directory scan: Image.open, makedirs,
\* listdir, next_idx and output_path.
Scan(s, part, d) ==
  LET t == [s EXCEPT !.img_data = part.inline]
  IN IF ImageOpenOk(part.inline)
     THEN [t EXCEPT !.pc = "save", !.gen_img = Bitmap(part.inline),
                    !.next_idx = NextIdx(d)]
     ELSE Fallback(t)

\* alter_tattoo's image branch.
Reencode(s, part) ==
  LET t == [s EXCEPT !.img_data = part.inline]
  IN IF ImageOpenOk(part.inline)
     THEN [t EXCEPT !.image = B64Encode(SavePng(Bitmap(part.inline))), !.idx = @ + 1]
     ELSE Fallback(t)

\* A part that is an image to the loop: no text, and inline data.
IsImagePart(part) == ~Truthy(part.text) /\ part.inline # NoInline

\* One iteration of "for part in parts", up to generate_tattoo's save.
Iterate(s, d) ==
  LET part == s.parts[s.idx]
  IN CASE Truthy(part.text) -> TextPart(s, part)
       [] IsImagePart(part) ->
            IF s.kind = "project" THEN Scan(s, part, d) ELSE Reencode(s, part)
       [] OTHER -> [s EXCEPT !.idx = @ + 1]

LoopStep(r) ==
  /\ st[r].pc = "loop"
  /\ st[r].idx <= Len(st[r].parts)
  /\ Step(r, Iterate(st[r], dir))
  /\ UNCHANGED <<app, dir, worker, emitted, started_empty, gens, multi>>

\* The path of a save that scans the directory again.
SavePathRescans(s, d) == OutputPath(NextIdx(d))

\* The path gen_img.save(output_path) writes: the one the scan computed.
SavePath(s, d) == OutputPath(s.next_idx)

\* The frame after gen_img.save(output_path) and the PNG for the page: the try
\* block after Image.open (makedirs, listdir, the index, both saves) did not raise.
Saved(s) ==
  [s EXCEPT !.pc = "loop", !.idx = @ + 1, !.saves = Append(@, TRUE),
            !.image = B64Encode(SavePng(s.gen_img))]

\* gen_img.save(output_path); when the try block raises after Image.open (the
\* listing, the index or a save) the except branch falls back to the raw bytes
\* and no file is written.
Save(r) ==
  /\ st[r].pc = "save"
  /\ \E ok \in BOOLEAN :
       IF ok
       THEN /\ dir' = (SavePath(st[r], dir) :> st[r].gen_img) @@ dir
            /\ Step(r, Saved(st[r]))
       ELSE /\ dir' = dir
            /\ Step(r, Fallback([st[r] EXCEPT !.saves = Append(@, FALSE)]))
  /\ UNCHANGED <<app, worker, emitted, started_empty, gens, multi>>

\* The files of the listing that were not there when the image model answered
\* generate_tattoo.
Written(s, d) == DOMAIN d \ s.before

\* The loop is over: the handler returns its response.
Finish(r) ==
  /\ st[r].pc = "loop"
  /\ st[r].idx > Len(st[r].parts)
  /\ Step(r, Returned(st[r], IF st[r].kind = "project" THEN Negotiated
                             ELSE AlterResponse(st[r])))
  /\ LET n == Len(SelectSeq(st[r].saves, LAMBDA ok : ok))
     IN /\ gens' = IF n = 1 THEN gens + 1 ELSE gens
        /\ multi' = (multi \/ n > 1)
  /\ UNCHANGED <<app, dir, worker, emitted, started_empty>>

\* The response leaves; the slot is free for the next request.
Deliver(r) ==
  /\ st[r].pc = "done"
  /\ Step(r, Idle)
  /\ UNCHANGED <<app, dir, worker, emitted, started_empty, gens, multi>>

Next ==
  \E r \in Slots :
    \/ Submit(r)
    \/ ReadPhoto(r)
    \/ ReadReference(r)
    \/ ReadJson(r)
    \/ CallFails(r)
    \/ CallText(r)
    \/ CallImage(r)
    \/ LoopStep(r)
    \/ Save(r)
    \/ Finish(r)
    \/ Deliver(r)

\* One server process, one event loop.
Spec == Init /\ [][Next]_vars

\* Two worker processes.
SpecMP == InitMP /\ [][Next]_vars

----------------------------------------------------------------------------
\* The claims.

IsDone(r) == st[r].pc = "done"
Body(r) == st[r].resp.body
Quiet == \A w \in Workers : loop[w] = Free

\* A generate_tattoo frame whose try block ran to its end.
Succeeded(s) ==
  \/ s.resp.fmt = "json" /\ "generated_text" \in DOMAIN s.resp.body
  \/ s.resp.fmt = "html" /\ "generated_image_base64" \in DOMAIN s.resp.body

\* The image the response carries.
ReturnedImage(s) ==
  IF "image_base64" \in DOMAIN s.resp.body THEN s.resp.body.image_base64
  ELSE IF "generated_image_base64" \in DOMAIN s.resp.body
       THEN s.resp.body.generated_image_base64
       ELSE <<"absent">>

RECURSIVE ConcatTexts(_)
ConcatTexts(ps) ==
  IF ps = <<>> THEN <<>>
  ELSE (IF Head(ps).text \in {None, <<>>} THEN <<>> ELSE Head(ps).text)
       \o ConcatTexts(Tail(ps))

\* The parts with inline data and no text, and those of them that decode.
ImageParts(ps) ==
  SelectSeq(ps, LAMBDA p : p.inline # NoInline /\ p.text \in {None, <<>>})
Decodable(ps) == SelectSeq(ImageParts(ps), LAMBDA p : ImageOpenOk(p.inline))
LastOf(q) == q[Len(q)]
Successes(saves) == Len(SelectSeq(saves, LAMBDA ok : ok))

\* The last image part's attempt failed: it did not decode, or its save raised.
LastFailed(s) ==
  /\ ImageParts(s.parts) # <<>>
  /\ \/ ~ImageOpenOk(LastOf(ImageParts(s.parts)).inline)
     \/ s.kind = "project" /\ s.saves # <<>> /\ ~LastOf(s.saves)

\* C1: in one server process that started with an empty directory, once N
\* generations have each written their one decodable image and no handler is
\* running, the directory holds exactly generated_image1.png ..
\* generated_imageN.png.
C1_SequentialFiles ==
  (started_empty /\ ~multi /\ Quiet)
    => DOMAIN dir = {OutputPath(i) : i \in 1..gens}

\* C1's case: two generations done, from an empty directory.
C1_Witness ==
  /\ started_empty /\ ~multi /\ Quiet
  /\ gens = 2
  /\ Cardinality(DOMAIN dir) = 2

\* C2: with two worker processes a save writes the path its own scan computed,
\* whatever the directory holds by then: a file another worker wrote to that
\* path since the scan is replaced.
C2_SaveUsesScannedIndex ==
  [][\A r \in Slots :
       (st[r].pc = "save" /\ st'[r].pc = "loop" /\ dir' # dir)
         => dir' = (OutputPath(st[r].next_idx) :> st[r].gen_img) @@ dir]_vars

\* C2's case: two requests scanned the same index, both saved, and the image of
\* one of them is in no file.
C2_Witness ==
  \E r, q \in Slots :
    /\ r # q
    /\ st[r].next_idx = st[q].next_idx
    /\ st[r].saves = <<TRUE>> /\ st[q].saves = <<TRUE>>
    /\ st[r].gen_img = "i1" /\ st[q].gen_img = "i2"
    /\ dir[OutputPath(st[q].next_idx)] = "i2"
    /\ \A n \in DOMAIN dir : dir[n] # "i1"

\* C3 as stated: every generate-tattoo response has status 200 and is no
\* propagated exception, and a request that failed carries an error text.
C3_GenerateCatches ==
  \A r \in Slots :
    (IsDone(r) /\ st[r].kind \in {"project", "backend", "root"})
      => /\ st[r].resp.status = 200
         /\ st[r].resp.fmt # "exception"
         /\ (Succeeded(st[r]) \/ "idea" \in DOMAIN Body(r)
             \/ ("error" \in DOMAIN Body(r) /\ Body(r).error # None))

\* C4: alter_tattoo calls the model only after generated_image_base64 decoded
\* to an image, and a request whose image does not decode ends in status 400
\* with an error, the model never called.
C4_DecodeBeforeCall ==
  \A r \in Slots :
    st[r].kind = "alter" =>
      LET s == st[r]
          b64 == s.data.generated_image_base64
      IN /\ s.called =>
              /\ s.data.json_ok /\ b64 # None
              /\ ImageOpenOk(B64Decode(b64))
              /\ s.prev_image = Bitmap(B64Decode(b64))
         /\ (s.pc = "done" /\ s.data.json_ok /\ s.data.feedback # None
             /\ b64 # None /\ ~ImageOpenOk(B64Decode(b64)))
              => /\ s.resp.status = 400
                 /\ "error" \in DOMAIN s.resp.body
                 /\ ~s.called

\* C4's case: a body whose image is base64 of bytes that are no image got 400.
C4_Witness ==
  \E r \in Slots :
    /\ IsDone(r) /\ st[r].kind = "alter"
    /\ st[r].data.generated_image_base64 = B64Encode(<<"junk">>)
    /\ st[r].resp.status = 400
    /\ ~st[r].called

\* C5 as stated: every failing alter_tattoo response carries an error string,
\* with status 400 for an invalid image, 500 when the model returned no image,
\* 200 otherwise.
C5_AlterErrorBodies ==
  \A r \in Slots :
    (IsDone(r) /\ st[r].kind = "alter" /\ "image_base64" \notin DOMAIN Body(r))
      => /\ "error" \in DOMAIN Body(r)
         /\ st[r].resp.status =
              IF st[r].resp = InvalidImage THEN 400
              ELSE IF st[r].resp = NoAlteredImage THEN 500 ELSE 200

\* C6 as stated: with a valid photo, every generate response has an error key,
\* or a text key (generated_text or idea) together with image_base64.
C6_ErrorOrPair ==
  \A r \in Slots :
    (IsDone(r) /\ st[r].kind \in {"project", "backend", "root"}
     /\ ImageOpenOk(st[r].photo))
      => \/ "error" \in DOMAIN Body(r)
         \/ /\ "image_base64" \in DOMAIN Body(r)
            /\ DOMAIN Body(r) \cap {"generated_text", "idea"} # {}

\* C7 as stated: on every path of the project's generate_tattoo a request that
\* accepts application/json gets the JSON payload {generated_text,
\* image_base64}, and any other request the rendered page.
C7_AcceptDecides ==
  \A r \in Slots :
    (IsDone(r) /\ st[r].kind = "project")
      => IF st[r].accept_json
         THEN /\ st[r].resp.fmt = "json"
              /\ DOMAIN Body(r) = {"generated_text", "image_base64"}
         ELSE st[r].resp.fmt = "html"

\* C8 as stated: when the last image part did not decode, alter_tattoo still
\* answers 200 with the base64 of the raw bytes.
C8_Original ==
  \A r \in Slots :
    (IsDone(r) /\ st[r].kind = "alter" /\ LastFailed(st[r]))
      => /\ st[r].resp.status = 200
         /\ "error" \notin DOMAIN Body(r)
         /\ ReturnedImage(st[r]) = B64Encode(LastOf(ImageParts(st[r].parts)).inline)

\* C8, amended: when the last image part did not decode (or, in
\* generate_tattoo, its save raised) the request does not fail and returns the
\* base64 of the part's raw bytes, except that alter_tattoo answers its 500
\* "No altered image" when those bytes are empty; a part that does not decode
\* adds no file.
C8_RawFallback ==
  \A r \in Slots :
    LET s == st[r]
        raw == B64Encode(LastOf(ImageParts(s.parts)).inline)
    IN /\ (s.pc = "done" /\ s.kind = "project" /\ LastFailed(s))
            => /\ Succeeded(s)
               /\ s.resp.status = 200
               /\ ReturnedImage(s) = raw
       /\ (s.pc = "done" /\ s.kind = "alter" /\ LastFailed(s))
            => IF raw = <<>> THEN s.resp = NoAlteredImage
               ELSE /\ s.resp.status = 200
                    /\ "error" \notin DOMAIN s.resp.body
                    /\ ReturnedImage(s) = raw
       /\ (s.pc = "done" /\ s.kind = "project" /\ Len(s.parts) > 0)
            => Cardinality(Written(s, dir)) <= Len(Decodable(s.parts))

\* C8's case: a part decoded and was saved, the last one did not decode, and
\* the response carries the raw bytes of the last.
C8_Witness ==
  \E r \in Slots :
    /\ IsDone(r) /\ st[r].kind = "project"
    /\ st[r].parts = <<[text |-> None, inline |-> <<"jpg", "i1">>],
                       [text |-> None, inline |-> <<"junk">>]>>
    /\ Cardinality(Written(st[r], dir)) = 1
    /\ ReturnedImage(st[r]) = B64Encode(<<"junk">>)

\* What generate_tattoo extracts from the parts, but for the number of files.
Extraction(s) ==
  LET imgs == ImageParts(s.parts)
      last == LastOf(imgs)
  IN /\ s.generated_text = ConcatTexts(s.parts)
     /\ s.accept_json => s.resp.body.generated_text = ConcatTexts(s.parts)
     /\ ReturnedImage(s) = s.image
     /\ imgs = <<>> => s.image = None
     /\ imgs # <<>> =>
          s.image = IF ImageOpenOk(last.inline) /\ LastOf(s.saves)
                    THEN B64Encode(SavePng(Bitmap(last.inline)))
                    ELSE B64Encode(last.inline)

\* C9 as stated: ... and a request with k decodable image parts writes k files.
C9_Original ==
  \A r \in Slots :
    (IsDone(r) /\ st[r].kind = "project" /\ Succeeded(st[r]))
      => /\ Extraction(st[r])
         /\ Cardinality(Written(st[r], dir)) = Len(Decodable(st[r].parts))

\* C9, amended: generate_tattoo returns the concatenation, in order, of the
\* text parts and the image of the last image part (null when there is none),
\* a part with text and inline data counting as text; a request with k
\* decodable image parts makes k saves and writes one file for each save that
\* does not raise: k files when none raises, not one.
C9_Extraction ==
  \A r \in Slots :
    (IsDone(r) /\ st[r].kind = "project" /\ Succeeded(st[r]))
      => /\ Extraction(st[r])
         /\ Len(st[r].saves) = Len(Decodable(st[r].parts))
         /\ Cardinality(Written(st[r], dir)) = Successes(st[r].saves)

\* C9's case: two decodable image parts, two files, the second image returned.
C9_Witness ==
  \E r \in Slots :
    /\ IsDone(r) /\ st[r].kind = "project" /\ st[r].accept_json
    /\ st[r].parts = <<[text |-> None, inline |-> <<"jpg", "i1">>],
                       [text |-> None, inline |-> <<"png", "i2">>]>>
    /\ Cardinality(Written(st[r], dir)) = 2
    /\ Body(r).image_base64 = B64Encode(<<"png", "i2">>)

\* C10: in one server process a handler about to save holds the index after
\* the largest numbered file of the directory as it is now, and no step
\* removes a file or changes its content.
C10_NeverReplaces ==
  /\ [](\A r \in Slots : st[r].pc = "save" => st[r].next_idx = MaxIdx(dir) + 1)
  /\ [][\A n \in DOMAIN dir : n \in DOMAIN dir' /\ dir'[n] = dir[n]]_vars

\* C10's case: the directory began with a gap and names without a number, a
\* save went to index 4, and a second request is about to save while another
\* waits at an await.
C10_Witness ==
  \E r, q \in Slots :
    /\ r # q
    /\ st[r].pc = "save" /\ st[r].next_idx = 5
    /\ st[q].pc \in {"read_photo", "read_ref"}
    /\ {<<Prefix, "X", ".png">>, <<Prefix, ".png">>, OutputPath(4)} \subseteq DOMAIN dir
    /\ OutputPath(2) \notin DOMAIN dir

====
